---- MODULE Spec2Model ----
(***************************************************************************)
(* Model of the car-manager HTTP server (src/index.js).                    *)
(*                                                                         *)
(* Two parts share the module:                                             *)
(*   - the condition endpoints and the vehicle read, which are async       *)
(*     handlers doing a read-modify-write against the Firestore document   *)
(*     vehicles/{vehicleId}; every await is a point where another request  *)
(*     may run, so each handler is split at its awaits (Spec);             *)
(*   - the upload endpoint with its multer disk storage (SpecUpload).      *)
(*                                                                         *)
(* Strings that are used as path material are modelled as the sequence of  *)
(* their "/"-separated segments, so that path.join's normalisation is      *)
(* computed rather than assumed.  The empty sequence stands for a field    *)
(* that is absent or the empty string: both are falsy for `!x`.            *)
(***************************************************************************)
EXTENDS Integers, Sequences, FiniteSets, TLC

----------------------------------------------------------------------------
(* Bounds of the model                                                     *)

MaxIds == 2
MaxUploads == 2
MaxTime == 1

(* Program constants                                                       *)

KiB == 1024
FileSizeLimit == 10 * KiB * KiB

----------------------------------------------------------------------------
(* Inputs                                                                  *)

Procs == {1, 2}
VehicleIds == {"v1", "v2"}
CustomId == <<"c", 0>>

VARIABLES
  db,       \* Firestore collection 'vehicles': vehicleId -> [exists, data]
  nextId,   \* number of uuids generated so far
  pc,       \* per request handler: where it is suspended
  h,        \* per request handler: its current/last request, locals, response
  fs,       \* files on disk: path -> content
  dirs,     \* directories created under the documents root
  now,      \* Date.now()
  nUp,      \* number of upload requests received
  up,       \* the last upload request with its response
  log       \* successful uploads: request number and stored path

vars == <<db, nextId, pc, h, fs, dirs, now, nUp, up, log>>
storeVars == <<db, nextId, pc, h>>
diskVars == <<fs, dirs, now, nUp, up, log>>

----------------------------------------------------------------------------
(* Document store (firebase-admin Firestore), as the handlers use it.      *)
(* The store is taken to answer every get; an update of a document that    *)
(* does not exist is refused, which the handlers answer with 500.          *)

NoData == [k \in {} |-> 0]
NoDoc == [exists |-> FALSE, data |-> NoData]

\* vehicleRef.get(): the snapshot of the document
StoreGet(store, vehicleId) == store[vehicleId]

\* snapshot.exists
SnapshotExistsAlways(snapshot) == TRUE
SnapshotExists(snapshot) == snapshot.exists

\* vehicle.data() || {}
SnapshotData(snapshot) == IF snapshot.exists THEN snapshot.data ELSE NoData

\* vehicleData.conditions || []
ConditionsOf(vehicleData) ==
  IF "conditions" \in DOMAIN vehicleData THEN vehicleData.conditions ELSE <<>>

\* object spread { ...a, ...b }: the later operand's keys win
Spread(a, b) ==
  [k \in (DOMAIN a) \cup (DOMAIN b) |-> IF k \in DOMAIN b THEN b[k] ELSE a[k]]

\* vehicleRef.update(fields): merges the given fields into the document
DocUpdateReplace(data, fields) == fields
DocUpdateUnion(data, fields) ==
  LET old == ConditionsOf(data)
      new == SelectSeq(fields.conditions,
                       LAMBDA c : \A i \in 1..Len(old) : old[i] # c)
  IN Spread(data, [conditions |-> old \o new])
DocUpdate(data, fields) == Spread(data, fields)

\* uuidv4(): a fresh identifier
Uuid(n) == <<"u", n>>
IssuedIds == {Uuid(n) : n \in 1..nextId}

\* { id: uuidv4(), ...req.body }
ConditionDataIdLast(uuid, body) == Spread(body, [id |-> uuid])
ConditionData(uuid, body) == Spread([id |-> uuid], body)

\* conditions.push(conditionData)
ConditionsUnshift(conditions, conditionData) == <<conditionData>> \o conditions
ConditionsPush(conditions, conditionData) == Append(conditions, conditionData)

\* conditions.filter(condition => condition.id !== conditionId)
ConditionsFilter(conditions, conditionId) ==
  SelectSeq(conditions, LAMBDA c : ~("id" \in DOMAIN c /\ c.id = conditionId))

\* the body of GET /api/vehicles/:vehicleId
ReadResponse(store, vehicleId) ==
  LET vehicle == StoreGet(store, vehicleId) IN
  IF ~SnapshotExists(vehicle)
    THEN [status |-> 404, body |-> [error |-> "Vehicle not found"]]
    ELSE [status |-> 200,
          body |-> Spread(Spread([vehicleId |-> vehicleId], vehicle.data),
                          [conditions |-> ConditionsOf(vehicle.data)])]

\* JSON bodies a client may send: without or with an id field of its own
Bodies == {[note |-> "scratch"], [id |-> CustomId, note |-> "scratch"]}

\* :conditionId of a delete: an id the client made up or one it has been given
ConditionIds == {CustomId} \cup IssuedIds

Idle == [op |-> "none", v |-> "v1", body |-> NoData, cid |-> CustomId,
         gen |-> CustomId, rec |-> NoData, snap |-> <<>>, next |-> <<>>,
         pre |-> <<>>, post |-> <<>>, wrote |-> FALSE,
         status |-> 0, out |-> NoData]

----------------------------------------------------------------------------
(* POST /api/vehicles/:vehicleId/conditions                                *)

\* up to the resolution of `await vehicleRef.get()` and the synchronous
\* code that follows it
AddStart(p, vehicleId, body) ==
  /\ pc[p] = "idle"
  /\ nextId < MaxIds
  /\ nextId' = nextId + 1
  /\ LET conditionData == ConditionData(Uuid(nextId + 1), body)
         vehicle == StoreGet(db, vehicleId)
         r == [Idle EXCEPT !.op = "add", !.v = vehicleId, !.body = body,
                           !.gen = Uuid(nextId + 1), !.rec = conditionData]
     IN IF ~SnapshotExists(vehicle)
          THEN /\ h' = [h EXCEPT ![p] = [r EXCEPT !.status = 404,
                                   !.out = [error |-> "Vehicle not found"]]]
               /\ pc' = pc
          ELSE LET conditions == ConditionsOf(SnapshotData(vehicle)) IN
               /\ h' = [h EXCEPT ![p] = [r EXCEPT !.snap = conditions,
                          !.next = ConditionsPush(conditions, conditionData)]]
               /\ pc' = [pc EXCEPT ![p] = "addUpdate"]
  /\ UNCHANGED <<db, diskVars>>

\* `await vehicleRef.update({conditions})` and the response
AddUpdate(p) ==
  /\ pc[p] = "addUpdate"
  /\ pc' = [pc EXCEPT ![p] = "idle"]
  /\ LET v == h[p].v IN
     IF db[v].exists
       THEN /\ db' = [db EXCEPT ![v].data =
                        DocUpdate(db[v].data, [conditions |-> h[p].next])]
            /\ h' = [h EXCEPT ![p].pre = ConditionsOf(db[v].data),
                              ![p].post = ConditionsOf(db'[v].data),
                              ![p].wrote = TRUE,
                              ![p].status = 201,
                              ![p].out = h[p].rec]
       ELSE /\ db' = db
            /\ h' = [h EXCEPT ![p].status = 500,
                              ![p].out = [error |-> "Error adding condition"]]
  /\ UNCHANGED <<nextId, diskVars>>

----------------------------------------------------------------------------
(* DELETE /api/vehicles/:vehicleId/conditions/:conditionId                 *)

DeleteStart(p, vehicleId, conditionId) ==
  /\ pc[p] = "idle"
  /\ LET vehicle == StoreGet(db, vehicleId)
         r == [Idle EXCEPT !.op = "delete", !.v = vehicleId, !.cid = conditionId]
     IN IF ~SnapshotExists(vehicle)
          THEN /\ h' = [h EXCEPT ![p] = [r EXCEPT !.status = 404,
                                   !.out = [error |-> "Vehicle not found"]]]
               /\ pc' = pc
          ELSE LET conditions == ConditionsOf(vehicle.data) IN
               /\ h' = [h EXCEPT ![p] = [r EXCEPT !.snap = conditions,
                          !.next = ConditionsFilter(conditions, conditionId)]]
               /\ pc' = [pc EXCEPT ![p] = "deleteUpdate"]
  /\ UNCHANGED <<db, nextId, diskVars>>

DeleteUpdate(p) ==
  /\ pc[p] = "deleteUpdate"
  /\ pc' = [pc EXCEPT ![p] = "idle"]
  /\ LET v == h[p].v IN
     IF db[v].exists
       THEN /\ db' = [db EXCEPT ![v].data =
                        DocUpdate(db[v].data, [conditions |-> h[p].next])]
            /\ h' = [h EXCEPT ![p].pre = ConditionsOf(db[v].data),
                              ![p].post = ConditionsOf(db'[v].data),
                              ![p].wrote = TRUE,
                              ![p].status = 200,
                              ![p].out = [message |-> "Condition deleted successfully"]]
       ELSE /\ db' = db
            /\ h' = [h EXCEPT ![p].status = 500,
                              ![p].out = [error |-> "Error deleting condition"]]
  /\ UNCHANGED <<nextId, diskVars>>

----------------------------------------------------------------------------
(* GET /api/vehicles/:vehicleId                                            *)

VehicleRead(p, vehicleId) ==
  /\ pc[p] = "idle"
  /\ LET res == ReadResponse(db, vehicleId) IN
     h' = [h EXCEPT ![p] = [Idle EXCEPT !.op = "read", !.v = vehicleId,
                              !.status = res.status, !.out = res.body]]
  /\ UNCHANGED <<db, nextId, pc, diskVars>>

----------------------------------------------------------------------------

InitStore ==
  /\ \E d \in {[brand |-> "bmw"], [brand |-> "bmw", conditions |-> <<>>]} :
       db = [v \in VehicleIds |->
               IF v = "v1" THEN [exists |-> TRUE, data |-> d] ELSE NoDoc]
  /\ nextId = 0
  /\ pc = [p \in Procs |-> "idle"]
  /\ h = [p \in Procs |-> Idle]

InitDisk ==
  /\ fs = NoData
  /\ dirs = {}
  /\ now = 0
  /\ nUp = 0
  /\ up = NoData
  /\ log = {}

Init == InitStore /\ InitDisk

Next ==
  \/ \E p \in Procs, v \in VehicleIds, b \in Bodies : AddStart(p, v, b)
  \/ \E p \in Procs : AddUpdate(p)
  \/ \E p \in Procs, v \in VehicleIds, c \in ConditionIds : DeleteStart(p, v, c)
  \/ \E p \in Procs : DeleteUpdate(p)
  \/ \E p \in Procs, v \in VehicleIds : VehicleRead(p, v)

Spec == Init /\ [][Next]_vars

----------------------------------------------------------------------------
(* Properties of the condition endpoints                                   *)

Done(p, op, status) == pc[p] = "idle" /\ h[p].op = op /\ h[p].status = status

\* the document's conditions were, when p wrote, still what p had read:
\* no other write fell between p's read and p's write
Alone(p) == h[p].wrote /\ h[p].pre = h[p].snap

\* p's write is still the last one to its document
Latest(p) == ConditionsOf(db[h[p].v].data) = h[p].post

DistinctIds(conditions) ==
  \A i, j \in 1..Len(conditions) : i # j => conditions[i].id # conditions[j].id

RemoveAt(s, i) == SubSeq(s, 1, i - 1) \o SubSeq(s, i + 1, Len(s))

\* C4: a non-overlapped Add appends its record after all records already
\* present, the record's id is the one the server generated for the call,
\* and the ids in conditions are pairwise distinct
C4_AddAppendsGeneratedId ==
  \A p \in Procs :
    Done(p, "add", 201) /\ Alone(p) =>
      /\ h[p].post = Append(h[p].pre, h[p].rec)
      /\ h[p].rec.id = h[p].gen
      /\ DistinctIds(h[p].post)

\* C5: a non-overlapped Delete whose conditionId matches a record removes
\* exactly one record, keeping the others in order; one that matches no
\* record leaves conditions unchanged; both answer 200
C5_DeleteRemovesExactlyOne ==
  \A p \in Procs :
    pc[p] = "idle" /\ h[p].op = "delete" /\ db[h[p].v].exists /\ Alone(p) =>
      LET hits == {i \in 1..Len(h[p].pre) : h[p].pre[i].id = h[p].cid} IN
      /\ h[p].status = 200
      /\ IF hits = {} THEN h[p].post = h[p].pre
                      ELSE \E i \in hits : h[p].post = RemoveAt(h[p].pre, i)

\* C6: an Add or Delete on a vehicleId with no document answers 404 and
\* issues no write; the document still does not exist
C6_MissingVehicleNotFound ==
  \A p \in Procs :
    h[p].op \in {"add", "delete"} /\ ~db[h[p].v].exists =>
      /\ pc[p] = "idle"
      /\ h[p].status = 404
      /\ ~h[p].wrote
      /\ db[h[p].v] = NoDoc

C6_Witness ==
  \E p, q \in Procs :
    /\ Done(p, "add", 404) /\ h[p].v = "v2"
    /\ Done(q, "delete", 404) /\ h[q].v = "v2"

\* C7: after a successful non-overlapped Add with body B, with no later
\* write to that vehicle, the Read response's conditions contain the record
\* the Add returned, and that record is B plus the injected generated id
C7_RoundTrip ==
  \A p \in Procs :
    Done(p, "add", 201) /\ Alone(p) /\ Latest(p) =>
      LET res == ReadResponse(db, h[p].v) IN
      /\ res.status = 200
      /\ \E i \in 1..Len(res.body.conditions) : res.body.conditions[i] = h[p].out
      /\ h[p].out = Spread(h[p].body, [id |-> h[p].gen])

\* C9: when two Adds on one vehicle read the same conditions and both answer
\* 201, the later write holds what was read plus the later record only: one
\* record more than was read, not two
C9_LaterWriteOverwrites ==
  \A p, q \in Procs :
    /\ p # q
    /\ Done(p, "add", 201) /\ Done(q, "add", 201)
    /\ h[p].v = h[q].v /\ h[p].snap = h[q].snap
    /\ Alone(p) /\ h[q].pre = h[p].post
    => /\ h[q].post = Append(h[q].snap, h[q].rec)
       /\ Len(h[q].post) = Len(h[p].snap) + 1

C9_Witness ==
  \E p, q \in Procs :
    /\ p # q
    /\ Done(p, "add", 201) /\ Done(q, "add", 201)
    /\ h[p].v = h[q].v /\ h[p].snap = h[q].snap
    /\ Alone(p) /\ h[q].pre = h[p].post /\ Latest(q)
    /\ h[p].rec # h[q].rec
    /\ \A i \in 1..Len(h[q].post) : h[q].post[i] # h[p].rec

\* C10: no step creates or deletes a vehicle document or changes a field
\* other than conditions; a step that changes the store is the update of an
\* Add or Delete and changes the addressed document only
C10_Frame ==
  [][/\ \A v \in VehicleIds :
          /\ db'[v].exists = db[v].exists
          /\ \A k \in (DOMAIN db[v].data \cup DOMAIN db'[v].data) \ {"conditions"} :
               /\ k \in DOMAIN db[v].data
               /\ k \in DOMAIN db'[v].data
               /\ db'[v].data[k] = db[v].data[k]
     /\ db' # db =>
          \E p \in Procs :
            /\ pc[p] \in {"addUpdate", "deleteUpdate"} /\ pc'[p] = "idle"
            /\ \A v \in VehicleIds \ {h[p].v} : db'[v] = db[v]]_vars

C10_Witness ==
  \E p, q \in Procs :
    /\ Done(p, "read", 200)
    /\ Done(q, "delete", 200) /\ h[q].wrote /\ h[q].post # h[q].pre
    /\ db["v1"].data.brand = "bmw"
    /\ ~db["v2"].exists

----------------------------------------------------------------------------
(* Upload: multer disk storage and POST /api/upload                        *)

\* values of the multipart text fields, as path segments
VehicleFields == {<<>>, <<"v1">>, <<"..">>}
TypeFields == {<<>>, <<"insurance">>, <<"..">>}
OriginalNames == {"card.pdf"}
\* a small file and one a byte over the limit
Sizes == {1, FileSizeLimit + 1}
Faults == {"none", "mkdir", "write"}

\* `!x` on a text field
Falsy(field) == field = <<>>

\* path.normalize on an absolute path: "." is dropped, ".." drops the
\* segment before it and is itself dropped at the root
RECURSIVE Normalize(_, _)
Normalize(segs, acc) ==
  IF segs = <<>> THEN acc
  ELSE LET s == Head(segs) IN
       Normalize(Tail(segs),
                 IF s = "." THEN acc
                 ELSE IF s = ".."
                   THEN (IF acc = <<>> THEN acc ELSE SubSeq(acc, 1, Len(acc) - 1))
                   ELSE Append(acc, s))

\* path.join(a, b, c): the parts joined, then normalised
PathJoin(a, b, c) == Normalize(a \o b \o c, <<>>)

\* __dirname of src/index.js
Dirname == <<"app", "src">>

\* path.join(__dirname, '../public/documents')
DocumentsPath == PathJoin(Dirname, <<"..", "public", "documents">>, <<>>)

\* path.join(__dirname, '../public/documents', vehicleId, type)
UploadPath(vehicleId, type) ==
  PathJoin(Dirname \o <<"..", "public", "documents">>, vehicleId, type)

\* `${timestamp}-${file.originalname}`
FileName(timestamp, originalname) == <<timestamp, originalname>>

\* path.join('/documents', vehicleId, type, req.file.filename); the file
\* name is one segment that is neither "." nor ".."
RelativePathNoType(vehicleId, type, filename) ==
  [dir |-> PathJoin(<<"documents">>, vehicleId, <<>>), name |-> filename]
RelativePath(vehicleId, type, filename) ==
  [dir |-> PathJoin(<<"documents">>, vehicleId, type), name |-> filename]

\* express.static mounted at /documents: the file a URL path names
StaticResolve(url) ==
  IF url.dir # <<>> /\ Head(url.dir) = "documents"
    THEN {[dir |-> DocumentsPath \o Tail(url.dir), name |-> url.name]}
    ELSE {}

\* the statuses of the multer callback: a MulterError is the client's, any
\* other error the server's
ErrorStatus(kind) == IF kind = "MulterError" THEN 400 ELSE 500

\* limits.fileSize
OverLimit(size) == size > FileSizeLimit

WriteFile(files, path, content) ==
  [f \in DOMAIN files \cup {path} |-> IF f = path THEN content ELSE files[f]]

RemoveFile(files, path) == [f \in DOMAIN files \ {path} |-> files[f]]

UploadRequests ==
  [vehicleId : VehicleFields, type : TypeFields, hasFile : {FALSE},
   fieldsFirst : {TRUE}, originalname : {"card.pdf"}, size : {1},
   fault : {"none"}]
  \cup
  [vehicleId : VehicleFields, type : TypeFields, hasFile : {TRUE},
   fieldsFirst : BOOLEAN, originalname : OriginalNames, size : Sizes,
   fault : Faults]

\* One upload request, from multer's parse to the response.  The text
\* fields that precede the file part are in req.body when the destination
\* is chosen; all of them are there when the callback runs.
Upload(req) ==
  /\ nUp < MaxUploads
  /\ nUp' = nUp + 1
  /\ now' = now
  /\ LET n == nUp + 1
         vehicleId == IF req.fieldsFirst THEN req.vehicleId ELSE <<>>
         type == IF req.fieldsFirst THEN req.type ELSE <<>>
         filename == FileName(now, req.originalname)
         stored == [dir |-> UploadPath(vehicleId, type), name |-> filename]
         answer(status, path) ==
           up' = [req |-> req, n |-> n, ts |-> now, status |-> status, path |-> path]
     IN
     IF ~req.hasFile
       THEN \* no file part: multer reports no error and req.file is unset
            /\ answer(400, {})
            /\ UNCHANGED <<fs, dirs, log>>
     ELSE IF Falsy(vehicleId) \/ Falsy(type)
       THEN \* destination: cb(new Error('Missing vehicleId or type'))
            /\ answer(ErrorStatus("Error"), {})
            /\ UNCHANGED <<fs, dirs, log>>
     ELSE IF req.fault = "mkdir"
       THEN \* fs.mkdirSync throws: cb(error)
            /\ answer(ErrorStatus("Error"), {})
            /\ UNCHANGED <<fs, dirs, log>>
     ELSE
       /\ dirs' = dirs \cup {stored.dir}
       /\ IF req.fault = "write"
            THEN \* the write stream fails: the truncated file is left behind
                 /\ fs' = WriteFile(fs, stored, [by |-> n, complete |-> FALSE])
                 /\ answer(ErrorStatus("Error"), {})
                 /\ log' = log
          ELSE IF OverLimit(req.size)
            THEN \* LIMIT_FILE_SIZE: multer removes the file it stored
                 /\ fs' = RemoveFile(fs, stored)
                 /\ answer(ErrorStatus("MulterError"), {})
                 /\ log' = log
          ELSE
            /\ fs' = WriteFile(fs, stored, [by |-> n, complete |-> TRUE])
            /\ IF Falsy(req.vehicleId) \/ Falsy(req.type)
                 THEN /\ answer(400, {})
                      /\ log' = log
                 ELSE /\ answer(200, {RelativePath(req.vehicleId, req.type, filename)})
                      /\ log' = log \cup {[n |-> n, stored |-> stored]}
  /\ UNCHANGED storeVars

\* the clock behind Date.now() moves on by a millisecond
Tick ==
  /\ now < MaxTime
  /\ now' = now + 1
  /\ UNCHANGED <<storeVars, fs, dirs, nUp, up, log>>

NextUpload ==
  \/ \E req \in UploadRequests : Upload(req)
  \/ Tick

InitUpload == Init /\ "conditions" \in DOMAIN db["v1"].data

SpecUpload == InitUpload /\ [][NextUpload]_vars

----------------------------------------------------------------------------
(* Properties of the upload                                                *)

\* a field that is one or more ordinary path segments
Plain(field) ==
  field # <<>> /\ \A i \in 1..Len(field) : field[i] \notin {".", ".."}

\* the files on disk that hold what request n sent
FilesOf(n) == {f \in DOMAIN fs : fs[f].by = n}

\* what the claim C1 promises of the last upload
StoredAsReturned ==
  LET name == <<up.ts, up.req.originalname>>
      file == [dir |-> DocumentsPath \o up.req.vehicleId \o up.req.type,
               name |-> name]
  IN /\ up.status = 200
     /\ up.path = {[dir |-> <<"documents">> \o up.req.vehicleId \o up.req.type,
                    name |-> name]}
     /\ file \in DOMAIN fs
     /\ fs[file] = [by |-> up.n, complete |-> TRUE]
     /\ \A url \in up.path : StaticResolve(url) = {file}

\* C1 as stated: every upload with non-empty vehicleId and type and a file
\* within the limit (the disk working) is answered 200 with the path
\* /documents/{vehicleId}/{type}/{timestamp}-{originalName}, and the file is
\* stored under documents/{vehicleId}/{type}/ with that name
C1_AsStated ==
  /\ nUp > 0 /\ up.req.hasFile
  /\ ~Falsy(up.req.vehicleId) /\ ~Falsy(up.req.type)
  /\ ~OverLimit(up.req.size) /\ up.req.fault = "none"
  => StoredAsReturned

\* C1 amended: the same, for uploads whose vehicleId and type fields come
\* before the file part and are ordinary path segments
C1_UploadStoredAsReturned ==
  /\ nUp > 0 /\ up.req.hasFile /\ up.req.fieldsFirst
  /\ Plain(up.req.vehicleId) /\ Plain(up.req.type)
  /\ ~OverLimit(up.req.size) /\ up.req.fault = "none"
  => StoredAsReturned

C1_Witness ==
  /\ nUp > 1 /\ up.req.hasFile /\ up.req.fieldsFirst
  /\ up.req.vehicleId = <<"v1">> /\ up.req.type = <<"insurance">>
  /\ up.ts = 1
  /\ up.status = 200
  /\ up.path = {[dir |-> <<"documents", "v1", "insurance">>,
                 name |-> <<1, "card.pdf">>]}
  /\ [dir |-> <<"app", "public", "documents", "v1", "insurance">>,
      name |-> <<1, "card.pdf">>] \in DOMAIN fs

\* C2: an upload with vehicleId or type missing is answered 400 and leaves
\* no file of its own on disk
C2_MissingFieldIs400 ==
  nUp > 0 /\ (Falsy(up.req.vehicleId) \/ Falsy(up.req.type)) =>
    up.status = 400 /\ FilesOf(up.n) = {}

\* C3: an upload whose file exceeds the limit is answered 400, which is not
\* the status of a disk failure, and leaves no file of its own on disk
C3_OversizeIs400 ==
  nUp > 0 /\ up.req.hasFile /\ OverLimit(up.req.size) /\ up.req.fault = "none" =>
    /\ up.status = 400
    /\ up.status # ErrorStatus("Error")
    /\ FilesOf(up.n) = {}

\* C8: uploads handled one after the other are stored under different
\* generated names, and a file once stored stays on disk as it was written
C8_SequentialUploadsDistinct ==
  /\ \A e1, e2 \in log : e1.n # e2.n => e1.stored # e2.stored
  /\ \A e \in log :
       e.stored \in DOMAIN fs /\ fs[e.stored] = [by |-> e.n, complete |-> TRUE]

====
